---- MODULE Spec2Model ----
(***************************************************************************)
(* A model of build-tracer.py: the command runner (run_command), the       *)
(* argument parser (get_cli_args_parser + parse_args), the tracer-branch   *)
(* ensurer (create_tracer_branch) and the orchestration (main).            *)
(*                                                                         *)
(* Two specifications:                                                     *)
(*   Spec         one run of the script: main() from entry to process exit *)
(*   SpecEnsurer  one call of create_tracer_branch(branch, dry_run,        *)
(*                verbose) by a caller (main never calls it)               *)
(*                                                                         *)
(* Bytes are numbers 0..255, text is a sequence of code points; the        *)
(* outcome of an external command is an input chosen by the environment.   *)
(***************************************************************************)
EXTENDS Integers, Sequences, FiniteSets

VARIABLES
    pc,             \* position of the running function
    cwd,            \* the process working directory (os.getcwd())
    saved,          \* main's local `cwd`: the directory saved at entry
    parsed,         \* how parse_args ended: "none", "ok", "error", "help"
    args,           \* the argparse namespace (dry_run, verbose, cwd)
    params,         \* create_tracer_branch's parameters
    ret,            \* the local `ret`
    out,            \* the text last returned by run_command
    tracer_branch,  \* create_tracer_branch's local `tracer_branch`
    calls,          \* history: one record per run_command call
    stdout,         \* what was printed to sys.stdout, in order
    stderr,         \* what was printed to sys.stderr, in order
    raised,         \* the exception propagating, "none" if none
    exitCode,       \* the process exit status, -1 while running
    restores        \* how many times the finally clause ran os.chdir(cwd)

vars == <<pc, cwd, saved, parsed, args, params, ret, out, tracer_branch,
          calls, stdout, stderr, raised, exitCode, restores>>

(***************************************************************************)
(* Bounds of the model.                                                    *)
(***************************************************************************)
\* most whitespace characters before, and after, the body of an output
MaxPad == 1
\* most tokens on the command line
MaxArgv == 2

(***************************************************************************)
(* Text: bytes.decode('utf-8') and str.strip().                            *)
(***************************************************************************)

\* bytes.decode('utf-8') on the one- and two-byte forms; [ok |-> FALSE] is
\* UnicodeDecodeError (a lone lead or continuation byte, or 0xF8..0xFF).
RECURSIVE decode(_)
decode(b) ==
    IF b = <<>> THEN [ok |-> TRUE, text |-> <<>>]
    ELSE IF Head(b) < 128
    THEN LET r == decode(Tail(b))
         IN  IF r.ok THEN [ok |-> TRUE, text |-> <<Head(b)>> \o r.text] ELSE r
    ELSE IF Head(b) \in 194..223 /\ Len(b) >= 2 /\ b[2] \in 128..191
    THEN LET r == decode(SubSeq(b, 3, Len(b)))
         IN  IF r.ok
             THEN [ok |-> TRUE,
                   text |-> <<(Head(b) - 192) * 64 + (b[2] - 128)>> \o r.text]
             ELSE r
    ELSE [ok |-> FALSE, text |-> <<>>]

\* str.isspace() for the code points below U+0800
IsSpace(c) == c \in {9, 10, 11, 12, 13, 28, 29, 30, 31, 32, 133, 160}

RECURSIVE lstrip(_)
lstrip(s) == IF s # <<>> /\ IsSpace(Head(s)) THEN lstrip(Tail(s)) ELSE s

RECURSIVE rstrip(_)
rstrip(s) ==
    IF s # <<>> /\ IsSpace(s[Len(s)]) THEN rstrip(SubSeq(s, 1, Len(s) - 1)) ELSE s

\* str.strip()
strip(s) == rstrip(lstrip(s))

\* the literals 'true' and ''
TRUE_TEXT == <<116, 114, 117, 101>>
EMPTY_TEXT == <<>>

(***************************************************************************)
(* What an external command can do (the environment's choice).             *)
(***************************************************************************)

\* n blanks (0x20), n newlines (0x0A)
RECURSIVE Blanks(_)
Blanks(n) == IF n = 0 THEN <<>> ELSE <<32>> \o Blanks(n - 1)

RECURSIVE Newlines(_)
Newlines(n) == IF n = 0 THEN <<>> ELSE <<10>> \o Newlines(n - 1)

\* bodies: nothing, "true", "false", "t e" (inner blank), "true" between
\* U+00A0 (0xC2 0xA0) and U+0085 (0xC2 0x85), and "t" followed by a truncated
\* two-byte character
Cores == {<<>>, <<116, 114, 117, 101>>, <<102, 97, 108, 115, 101>>,
          <<116, 32, 101>>, <<194, 160, 116, 114, 117, 101, 194, 133>>,
          <<116, 195>>}

\* what a command can write: a body after up to MaxPad blanks and before up
\* to MaxPad newlines
ByteOutputs ==
    {Blanks(i) \o c \o Newlines(j) : i \in 0..MaxPad, j \in 0..MaxPad, c \in Cores}

ExitCodes == {0, 1, 128}

\* kind "exit":    the command ended with status `code` and wrote `data`
\* kind "timeout": subprocess.run raised TimeoutExpired; its .stdout is None
\*                 (has_stdout = FALSE) or the bytes read so far
\* kind "oserror": subprocess.run raised something else
Outcomes ==
    [kind : {"exit"}, code : ExitCodes, has_stdout : {TRUE}, data : ByteOutputs]
    \cup [kind : {"timeout"}, code : {0}, has_stdout : {TRUE}, data : ByteOutputs]
    \cup [kind : {"timeout"}, code : {0}, has_stdout : {FALSE}, data : {<<>>}]
    \cup [kind : {"oserror"}, code : {0}, has_stdout : {FALSE}, data : {<<>>}]

(***************************************************************************)
(* run_command(cmd, dry_run, verbose), with `oc` what the command does if  *)
(* it is really run.  The result: the exception it raises ("none" if it    *)
(* returns), the pair (ret, out) it returns, whether it printed the        *)
(* command and whether it handed the command to the shell.                 *)
(***************************************************************************)
Returned(code, text, echo, kind) ==
    [raised |-> "none", ret |-> code, out |-> text, echo |-> echo,
     executed |-> kind # "dry", kind |-> kind]

Raising(exc, echo, kind) ==
    [raised |-> exc, ret |-> 0, out |-> <<>>, echo |-> echo,
     executed |-> TRUE, kind |-> kind]

\* the handler of subprocess.TimeoutExpired: (-1, ex.stdout.decode('utf-8'))
on_timeout(oc, echo) ==
    IF ~oc.has_stdout THEN Raising("AttributeError", echo, oc.kind)
    ELSE IF ~decode(oc.data).ok THEN Raising("UnicodeDecodeError", echo, oc.kind)
    ELSE Returned(-1, decode(oc.data).text, echo, oc.kind)

\* the handler of subprocess.CalledProcessError
on_called_process_error(oc, echo) ==
    IF ~decode(oc.data).ok THEN Raising("UnicodeDecodeError", echo, oc.kind)
    ELSE Returned(oc.code, decode(oc.data).text, echo, oc.kind)

run_command(cmd, dry_run, verbose, oc) ==
    LET echo == dry_run \/ verbose IN
    IF ~dry_run
    THEN CASE oc.kind = "exit" /\ oc.code = 0 ->
                \* a decode error in the try body reaches `except Exception`
                IF decode(oc.data).ok
                THEN Returned(0, decode(oc.data).text, echo, oc.kind)
                ELSE Returned(-1, <<>>, echo, oc.kind)
           [] oc.kind = "exit" /\ oc.code # 0 -> on_called_process_error(oc, echo)
           [] oc.kind = "timeout" -> on_timeout(oc, echo)
           [] oc.kind = "oserror" -> Returned(-1, <<>>, echo, oc.kind)
    ELSE Returned(0, <<>>, echo, "dry")

\* the history record of one call
CallRecord(cmd, r) ==
    [cmd |-> cmd, executed |-> r.executed, kind |-> r.kind,
     raised |-> r.raised # "none", ret |-> r.ret]

\* the commands
GIT_VERSION == <<"git --version">>
GIT_IS_INSIDE_WORK_TREE == <<"git rev-parse --is-inside-work-tree">>
GIT_BRANCH_LIST(branch_name) == <<"git branch --list", branch_name>>
GIT_BRANCH(branch_name) == <<"git branch", branch_name>>

\* variant: the third preflight query asks for the tracer branch instead
GIT_REV_PARSE_HEAD_AS_LIST == GIT_BRANCH_LIST("build-tracer")

GIT_REV_PARSE_HEAD == <<"git rev-parse HEAD">>

(***************************************************************************)
(* The argument parser.                                                    *)
(***************************************************************************)
\* the value of a flag's default=False
PyFalse == "False"

\* truthiness of an argument value: False and '' are false
Truthy(v) == v \notin {PyFalse, ""}

DefaultArgs == [dry_run |-> PyFalse, verbose |-> PyFalse, cwd |-> "."]

\* the flags that take one value, with their dest
Dest(flag) ==
    CASE flag = "-n" -> "dry_run" [] flag = "-v" -> "verbose" [] flag = "-C" -> "cwd"

ValueFlags == {"-n", "-v", "-C"}
\* "-x" is a flag the parser does not know
DashTokens == ValueFlags \cup {"-h", "-x"}
ValueTokens == {"", "sub", "nodir"}
Tokens == DashTokens \cup ValueTokens

RECURSIVE SeqsUpTo(_, _)
SeqsUpTo(S, n) ==
    IF n = 0 THEN {<<>>}
    ELSE SeqsUpTo(S, n - 1) \cup {Append(q, x) : q \in SeqsUpTo(S, n - 1), x \in S}

Argvs == SeqsUpTo(Tokens, MaxArgv)

\* argparse's exit status of parser.error()
ARGPARSE_ERROR_STATUS == 2

\* ArgumentParser.parse_args: flags are taken left to right; -h exits 0 where
\* it stands; a flag without its value exits 2 where it stands; unknown
\* arguments are collected and reported (exit 2) at the end.
RECURSIVE parse_from(_, _, _)
parse_from(argv, ns, extras) ==
    IF argv = <<>>
    THEN IF extras
         THEN [status |-> "error", code |-> ARGPARSE_ERROR_STATUS, ns |-> ns]
         ELSE [status |-> "ok", code |-> 0, ns |-> ns]
    ELSE IF Head(argv) = "-h"
    THEN [status |-> "help", code |-> 0, ns |-> ns]
    ELSE IF Head(argv) \in ValueFlags
    THEN IF Len(argv) < 2 \/ argv[2] \in DashTokens
         THEN [status |-> "error", code |-> ARGPARSE_ERROR_STATUS, ns |-> ns]
         ELSE parse_from(SubSeq(argv, 3, Len(argv)),
                         [ns EXCEPT ![Dest(Head(argv))] = argv[2]], extras)
    ELSE parse_from(Tail(argv), ns, TRUE)

parse_args(argv) == parse_from(argv, DefaultArgs, FALSE)

(***************************************************************************)
(* Directories: a path is the sequence of its components.                  *)
(***************************************************************************)
OrigDir == <<"work">>

\* path.abspath(p) when the working directory is `base`
abspath(base, p) == IF p \in {"", "."} THEN base ELSE Append(base, p)

\* the directories os.chdir accepts
DirExists(d) == d \in {<<"work">>, <<"work", "sub">>}

(***************************************************************************)
(* main(): one action per step between two external calls.                 *)
(***************************************************************************)

\* variant: a failed version query is not fatal
GitMissingNever(r) == FALSE

\* variant: the exit code alone decides, the likely-intended check
NotARepoByCodeAlone(r, git_repo) == r # 0

\* the three preflight conditions
GitMissing(r) == r # 0
NotARepo(r, git_repo) == r # 0 /\ strip(git_repo) # TRUE_TEXT
NoBaseCommit(r) == r # 0

\* sys.exit(n) raises SystemExit(n)
SystemExit(n) == IF n = 0 THEN "SystemExit(0)"
                 ELSE IF n = 1 THEN "SystemExit(1)" ELSE "SystemExit(2)"

\* variant: every exception, SystemExit included, ends with status 1
ExitStatusIgnoringCode(exc) == IF exc = "none" THEN 0 ELSE 1

\* the exit status of the interpreter when main() ended with `exc`
ExitStatus(exc) ==
    CASE exc = "none" -> 0
      [] exc = "SystemExit(0)" -> 0
      [] exc = "SystemExit(1)" -> 1
      [] exc = "SystemExit(2)" -> 2
      [] OTHER -> 1      \* an uncaught exception: traceback, status 1

print(stream, what) == Append(stream, what)

\* run_command's print(cmd), which comes before the command is run
Echo(stream, cmd, r) == IF r.echo THEN print(stream, cmd) ELSE stream

\* cwd = os.getcwd(); cwd = path.abspath(cwd)
SaveCwd ==
    /\ pc = "start"
    /\ saved' = abspath(cwd, ".")
    /\ pc' = "parse"
    /\ UNCHANGED <<cwd, parsed, args, params, ret, out, tracer_branch, calls,
                   stdout, stderr, raised, exitCode, restores>>

\* parser = get_cli_args_parser(); args = parser.parse_args()
ParseArgs ==
    /\ pc = "parse"
    /\ \E argv \in Argvs :
          LET p == parse_args(argv) IN
          /\ parsed' = p.status
          /\ IF p.status = "ok"
             THEN /\ args' = p.ns
                  /\ pc' = "chdir"
                  /\ UNCHANGED <<raised, stdout, stderr>>
             ELSE /\ raised' = SystemExit(p.code)
                  /\ pc' = "finally"
                  /\ stdout' = IF p.status = "help" THEN print(stdout, <<"usage">>)
                               ELSE stdout
                  /\ stderr' = IF p.status = "error" THEN print(stderr, <<"usage">>)
                               ELSE stderr
                  /\ UNCHANGED args
    /\ UNCHANGED <<cwd, saved, params, ret, out, tracer_branch, calls,
                   exitCode, restores>>

\* os.chdir(path.abspath(args.cwd))
ChdirTarget ==
    /\ pc = "chdir"
    /\ IF DirExists(abspath(cwd, args.cwd))
       THEN /\ cwd' = abspath(cwd, args.cwd)
            /\ pc' = "version"
            /\ UNCHANGED raised
       ELSE /\ raised' = "FileNotFoundError"
            /\ pc' = "finally"
            /\ UNCHANGED cwd
    /\ UNCHANGED <<saved, parsed, args, params, ret, out, tracer_branch, calls,
                   stdout, stderr, exitCode, restores>>

\* one preflight step: `r` is what run_command(cmd) did, `fatal` the step's
\* test of the returned pair, `next` where main goes on when the step passes
Preflight(cmd, r, fatal, message, next, shown) ==
    /\ calls' = Append(calls, CallRecord(cmd, r))
    /\ IF r.raised # "none"
       THEN /\ raised' = r.raised
            /\ pc' = "finally"
            /\ stdout' = Echo(stdout, cmd, r)
            /\ UNCHANGED <<ret, out, stderr>>
       ELSE /\ ret' = r.ret
            /\ out' = r.out
            /\ IF fatal
               THEN /\ stderr' = print(stderr, <<message>>)
                    /\ raised' = SystemExit(1)
                    /\ pc' = "finally"
                    /\ stdout' = Echo(stdout, cmd, r)
               ELSE /\ stdout' = IF shown
                                 THEN print(Echo(stdout, cmd, r), <<"find git: ">>)
                                 ELSE Echo(stdout, cmd, r)
                    /\ pc' = next
                    /\ UNCHANGED <<stderr, raised>>
    /\ UNCHANGED <<cwd, saved, parsed, args, params, tracer_branch, exitCode,
                   restores>>

\* ret, git_version = run_command('git --version') and its check
CheckGit ==
    /\ pc = "version"
    /\ \E oc \in Outcomes :
          LET r == run_command(GIT_VERSION, FALSE, FALSE, oc) IN
          Preflight(GIT_VERSION, r, GitMissing(r.ret),
                    "git is not installed.", "worktree", Truthy(args.verbose))

\* ret, git_repo = run_command('git rev-parse --is-inside-work-tree') and its check
CheckRepo ==
    /\ pc = "worktree"
    /\ \E oc \in Outcomes :
          LET r == run_command(GIT_IS_INSIDE_WORK_TREE, FALSE, FALSE, oc) IN
          Preflight(GIT_IS_INSIDE_WORK_TREE, r, NotARepo(r.ret, r.out),
                    "not a valid git repo.", "head", FALSE)

\* ret, base_commit = run_command('git rev-parse HEAD') and its check
GetBaseCommit ==
    /\ pc = "head"
    /\ \E oc \in Outcomes :
          LET r == run_command(GIT_REV_PARSE_HEAD, FALSE, FALSE, oc) IN
          Preflight(GIT_REV_PARSE_HEAD, r, NoBaseCommit(r.ret),
                    "failed to get base commit-id.", "finally", FALSE)

\* variant: the finally clause does not change directory
FinallyKeepsTarget ==
    /\ pc = "finally"
    /\ restores' = restores + 1
    /\ exitCode' = ExitStatus(raised)
    /\ pc' = "done"
    /\ UNCHANGED <<cwd, saved, parsed, args, params, ret, out, tracer_branch,
                   calls, stdout, stderr, raised>>

\* finally: os.chdir(cwd); then main ends and the interpreter exits
Finally ==
    /\ pc = "finally"
    /\ cwd' = saved
    /\ restores' = restores + 1
    /\ exitCode' = ExitStatus(raised)
    /\ pc' = "done"
    /\ UNCHANGED <<saved, parsed, args, params, ret, out, tracer_branch, calls,
                   stdout, stderr, raised>>

Init ==
    /\ pc = "start"
    /\ cwd = OrigDir
    /\ saved = <<>>
    /\ parsed = "none"
    /\ args = DefaultArgs
    /\ params = [branch_name |-> "build-tracer", dry_run |-> FALSE, verbose |-> FALSE]
    /\ ret = 0
    /\ out = <<>>
    /\ tracer_branch = <<>>
    /\ calls = <<>>
    /\ stdout = <<>>
    /\ stderr = <<>>
    /\ raised = "none"
    /\ exitCode = -1
    /\ restores = 0

Next ==
    \/ SaveCwd
    \/ ParseArgs
    \/ ChdirTarget
    \/ CheckGit
    \/ CheckRepo
    \/ GetBaseCommit
    \/ Finally

Spec == Init /\ [][Next]_vars

(***************************************************************************)
(* create_tracer_branch(branch_name, dry_run, verbose), called on its own. *)
(***************************************************************************)

\* variant: the create test is inverted
CreateFailedInverted(r) == r = 0

\* variant: the existence test is inverted
BranchAbsentInverted(listed) == strip(listed) # EMPTY_TEXT

\* `if ret != 0` after the list query, and after the create command
ListFailed(r) == r # 0
CreateFailed(r) == r # 0

\* `if tracer_branch.strip() == ''`
BranchAbsent(listed) == strip(listed) = EMPTY_TEXT

\* ret, tracer_branch = run_command(f'git branch --list {branch_name}') and
\* the two tests that follow it
ListBranches ==
    /\ pc = "e_list"
    /\ \E oc \in Outcomes :
          LET cmd == GIT_BRANCH_LIST(params.branch_name)
              r == run_command(cmd, FALSE, FALSE, oc)
          IN
          /\ calls' = Append(calls, CallRecord(cmd, r))
          /\ IF r.raised # "none"
             THEN /\ raised' = r.raised
                  /\ pc' = "e_raised"
                  /\ stdout' = Echo(stdout, cmd, r)
                  /\ UNCHANGED <<ret, tracer_branch, stderr>>
             ELSE /\ ret' = r.ret
                  /\ tracer_branch' = r.out
                  /\ stderr' = IF ListFailed(r.ret)
                               THEN print(stderr, <<"command failed: ", r.out>>)
                               ELSE stderr
                  /\ stdout' = IF BranchAbsent(r.out) /\ params.verbose
                               THEN print(Echo(stdout, cmd, r),
                                          <<"create branch: ", r.out>>)
                               ELSE Echo(stdout, cmd, r)
                  /\ pc' = IF BranchAbsent(r.out) THEN "e_create" ELSE "e_return"
                  /\ UNCHANGED raised
    /\ UNCHANGED <<cwd, saved, parsed, args, params, out, exitCode, restores>>

\* ret, output = run_command(f'git branch {branch_name}', verbose=verbose,
\* dry_run=dry_run) and the test that follows it
CreateBranch ==
    /\ pc = "e_create"
    /\ \E oc \in Outcomes :
          LET cmd == GIT_BRANCH(params.branch_name)
              r == run_command(cmd, params.dry_run, params.verbose, oc)
          IN
          /\ calls' = Append(calls, CallRecord(cmd, r))
          /\ stdout' = Echo(stdout, cmd, r)
          /\ IF r.raised # "none"
             THEN /\ raised' = r.raised
                  /\ pc' = "e_raised"
                  /\ UNCHANGED <<ret, out, stderr>>
             ELSE /\ ret' = r.ret
                  /\ out' = r.out
                  /\ stderr' = IF CreateFailed(r.ret)
                               THEN print(stderr, <<"command failed: ", r.out>>)
                               ELSE stderr
                  /\ pc' = "e_return"
                  /\ UNCHANGED raised
    /\ UNCHANGED <<cwd, saved, parsed, args, params, tracer_branch, exitCode,
                   restores>>

InitEnsurer ==
    /\ pc = "e_list"
    /\ cwd = OrigDir
    /\ saved = <<>>
    /\ parsed = "none"
    /\ args = DefaultArgs
    /\ params \in [branch_name : {"build-tracer"}, dry_run : BOOLEAN,
                   verbose : BOOLEAN]
    /\ ret = 0
    /\ out = <<>>
    /\ tracer_branch = <<>>
    /\ calls = <<>>
    /\ stdout = <<>>
    /\ stderr = <<>>
    /\ raised = "none"
    /\ exitCode = -1
    /\ restores = 0

NextEnsurer ==
    \/ ListBranches
    \/ CreateBranch

SpecEnsurer == InitEnsurer /\ [][NextEnsurer]_vars

(***************************************************************************)
(* Properties.  They speak of text through AllSpace and TrimsTo, stated    *)
(* without strip, and name the commands literally.                         *)
(***************************************************************************)

\* the commands called so far, in order
Cmds == [i \in 1..Len(calls) |-> calls[i].cmd]

IsPrefix(a, b) == Len(a) <= Len(b) /\ SubSeq(b, 1, Len(a)) = a

\* s is whitespace only (empty after trimming)
AllSpace(s) == \A k \in 1..Len(s) : IsSpace(s[k])

\* s is t between two runs of whitespace (t begins and ends with a non-blank)
TrimsTo(s, t) ==
    \E i \in 0..Len(s) : \E j \in i..Len(s) :
        /\ SubSeq(s, i + 1, j) = t
        /\ \A k \in 1..i : IsSpace(s[k])
        /\ \A k \in (j + 1)..Len(s) : IsSpace(s[k])

\* the i-th call returned (did not raise) with a non-zero code
ReturnedNonZero(i) == Len(calls) >= i /\ ~calls[i].raised /\ calls[i].ret # 0

\* the positions of the create-branch calls
CreateCalls == {i \in 1..Len(calls) : calls[i].cmd = <<"git branch", "build-tracer">>}

FatalMessages == {<<"git is not installed.">>, <<"not a valid git repo.">>,
                  <<"failed to get base commit-id.">>}

\* C1: whenever main ends (normal return, sys.exit(1) of a preflight check,
\* argparse's exit, or an exception inside the try block such as a failing
\* chdir), the working directory is the one main was entered in, and the
\* restore step has run exactly once (and never before the end).
C1_WorkingDirectoryRestored ==
    /\ pc = "done" => cwd = OrigDir /\ restores = 1
    /\ pc # "done" => restores = 0

\* C1 witness: main changed to another directory, a preflight check exited,
\* and the directory is back
C1_Witness ==
    /\ pc = "done"
    /\ args.cwd = "sub"
    /\ raised = "SystemExit(1)"
    /\ cwd = OrigDir

\* C2 (as claimed): with the dry-run flag set, no command is handed to the
\* shell and no preflight check is fatal.
C2_DryRunExecutesNothing ==
    (parsed = "ok" /\ Truthy(args.dry_run)) =>
        /\ \A i \in 1..Len(calls) : ~calls[i].executed
        /\ \A k \in 1..Len(stderr) : stderr[k] \notin FatalMessages

\* C3: the preflight queries are called in the order version, work-tree,
\* HEAD; once a step is fatal or raises nothing more is called; a version
\* query returning non-zero leaves the other two uncalled and ends with
\* status 1; a HEAD query returning non-zero ends with status 1.
C3_PreflightOrder ==
    /\ IsPrefix(Cmds, << <<"git --version">>,
                         <<"git rev-parse --is-inside-work-tree">>,
                         <<"git rev-parse HEAD">> >>)
    /\ raised # "none" => pc \in {"finally", "done"}
    /\ ReturnedNonZero(1) =>
          /\ Len(calls) = 1
          /\ raised = "SystemExit(1)"
          /\ pc = "done" => exitCode = 1
    /\ ReturnedNonZero(3) =>
          /\ raised = "SystemExit(1)"
          /\ pc = "done" => exitCode = 1

\* C3 witness: the version query returned 128 and the process ended there
C3_Witness ==
    /\ pc = "done"
    /\ Len(calls) = 1
    /\ calls[1].ret = 128
    /\ exitCode = 1

\* C4 (as claimed): the exit code is always 0 or 1, and 1 on an
\* argument-parsing failure.
C4_ExitCodeZeroOrOne ==
    pc = "done" =>
        /\ exitCode \in {0, 1}
        /\ parsed = "error" => exitCode = 1

\* C4 (amended): the exit code is always 0, 1 or 2: 0 when all preflight
\* steps pass, 1 on every fatal preflight failure, 2 on every
\* argument-parsing failure.
C4_ExitCodes ==
    pc = "done" =>
        /\ exitCode \in {0, 1, 2}
        /\ (Len(calls) = 3 /\ ~calls[3].raised /\ calls[3].ret = 0) => exitCode = 0
        /\ (\E k \in 1..Len(stderr) : stderr[k] \in FatalMessages) => exitCode = 1
        /\ parsed = "error" => exitCode = 2

\* C4 witness: an argument-parsing failure ended the process with status 2
C4_Witness ==
    /\ pc = "done"
    /\ parsed = "error"
    /\ exitCode = 2
    /\ calls = <<>>

\* a successful run of main with the default arguments
SuccessfulDefaultRun ==
    /\ pc = "done"
    /\ parsed = "ok"
    /\ args = [dry_run |-> "False", verbose |-> "False", cwd |-> "."]
    /\ exitCode = 0

ListReturned == Len(calls) >= 1 /\ ~calls[1].raised

\* C6: whenever the list query returned output that is not empty after
\* trimming, whatever its exit code, the create command is called zero times.
C6_NoCreateWhenListed ==
    (ListReturned /\ ~AllSpace(tracer_branch)) =>
        /\ CreateCalls = {}
        /\ pc = "e_return"

\* C6 witness: the list query failed with a non-blank output and the call
\* returned without a create
C6_Witness ==
    /\ pc = "e_return"
    /\ ListReturned
    /\ calls[1].ret = 128
    /\ TrimsTo(tracer_branch, <<116, 32, 101>>)
    /\ Len(tracer_branch) > 3

\* the call has returned, the list output was empty after trimming and every
\* create call returned 0
EnsuredByCreate ==
    /\ pc = "e_return"
    /\ ListReturned
    /\ AllSpace(tracer_branch)
    /\ \A i \in CreateCalls : ~calls[i].raised /\ calls[i].ret = 0

CreatedOnceAfterList ==
    /\ Len(calls) = 2
    /\ calls[1].cmd = <<"git branch --list", "build-tracer">>
    /\ CreateCalls = {2}

\* C7 (as claimed): empty trimmed list output and a create returning 0:
\* exactly one create call, after the list query, and nothing on the error
\* stream.
C7_CreateOnceSilently ==
    EnsuredByCreate => CreatedOnceAfterList /\ stderr = <<>>

\* C7 (amended): empty trimmed list output and a create returning 0: exactly
\* one create call, after the list query; the error stream holds nothing
\* when the list query returned 0 and exactly the list diagnostic otherwise.
C7_CreateOnce ==
    EnsuredByCreate =>
        /\ CreatedOnceAfterList
        /\ stderr = IF calls[1].ret = 0 THEN <<>>
                    ELSE << <<"command failed: ", tracer_branch>> >>

\* C7 witness: the list query failed with blank output, the create returned 0
C7_Witness ==
    /\ EnsuredByCreate
    /\ calls[1].ret # 0
    /\ calls[2].executed
    /\ Len(stderr) = 1

\* C8 (as claimed): a command that exceeds the timeout makes run_command
\* return -1 with the partial output; it never raises.
C8_TimeoutNeverRaises ==
    \A i \in 1..Len(calls) :
        calls[i].kind = "timeout" => ~calls[i].raised /\ calls[i].ret = -1

\* C9: the repository check ends the process (status 1) exactly when the
\* work-tree query returned a non-zero code and its trimmed output is not
\* exactly "true"; otherwise main goes on to the HEAD query.
C9_RepoCheckCompound ==
    (Len(calls) = 2 /\ ~calls[2].raised) =>
        IF ret # 0 /\ ~TrimsTo(out, <<116, 114, 117, 101>>)
        THEN /\ pc \in {"finally", "done"}
             /\ raised = "SystemExit(1)"
             /\ stderr = << <<"not a valid git repo.">> >>
             /\ pc = "done" => exitCode = 1
        ELSE /\ pc = "head"
             /\ raised = "none"
             /\ stderr = <<>>

\* C9 witness: non-zero code with " true\n": main is at the HEAD query
C9_Witness ==
    /\ Len(calls) = 2
    /\ pc = "head"
    /\ ret = 128
    /\ out = <<32, 116, 114, 117, 101, 10>>

\* C10 (as claimed): create_tracer_branch returns normally whatever its
\* list and create commands do; it never raises.
C10_EnsurerNeverRaises ==
    raised = "none" /\ pc # "e_raised"

====
